---- MODULE Spec2Model ----
(***************************************************************************)
(* Model of the building-surface pipeline of Cement_LMDI:                  *)
(*   footprint_extraction.py      batched zonal sums, per-year footprints  *)
(*   surface_calculation.py       per-year join, merge, ISO re-aggregation *)
(*   BuiltSurfaceCalc/surface_extraction.py   merge, ISO re-aggregation    *)
(***************************************************************************)
EXTENDS Integers, Sequences, FiniteSets, TLC

(***************************************************************************)
(* Bounds of the model.                                                    *)
(***************************************************************************)
MaxRegions == 3
MaxBatch == 3

(***************************************************************************)
(* Values.  NaN is the float "not a number" (pandas' missing value), None  *)
(* is Python's None, Inf is the float infinity.  A finite number is the    *)
(* exact rational n/d, held in lowest terms with d > 0; every value is a   *)
(* tagged tuple so that any two values can be compared.                    *)
(***************************************************************************)
NaN == <<"NaN">>
None == <<"None">>
Inf == <<"inf">>

RECURSIVE Gcd(_, _)
Gcd(a, b) == IF b = 0 THEN a ELSE Gcd(b, a % b)
Abs(a) == IF a < 0 THEN -a ELSE a

\* The rational n/d (d # 0) in lowest terms.
Q(n, d) ==
    LET g == Gcd(Abs(n), Abs(d))
        s == IF d < 0 THEN -1 ELSE 1
    IN  <<"num", (s * n) \div g, (s * d) \div g>>
Num(n) == <<"num", n, 1>>
IsNum(v) == v[1] = "num"

VARIABLES
    countries,     \* the region collection; each region carries what zonal_stats does for it
    batch_size,
    pc,            \* position in process_countries_in_batches / process_single_year
    i,             \* start index of the current batch (0-based, as in the code)
    end_idx,
    j,             \* regions of the current batch already handled
    batch_stats,
    all_stats,
    calls,         \* history: number of zonal_stats calls made for each region
    footprints,    \* the total_fp column built by process_single_year
    vol_file,      \* vol_results/volume_statistics_<year>.csv
    fp_file,       \* fp_results/footprint_statistics_<year>.csv
    year,          \* the year of the loop iteration of calculate_building_surface_area
    year_file,     \* surface_results/surface_statistics_<year>.csv
    year_pc,       \* position of the loop iteration
    module,        \* whose merge and ISO stages run: surface_calculation or surface_extraction
    output_dir,    \* the surface_statistics_*.csv files of the output directory
    raised,        \* the exception the last stage run ended with, or "none"
    iso_input,     \* history: the merged table read by the ISO run that wrote iso_summary
    vol_src,       \* the volume raster opened by calculate_raster_surface
    fp_src,        \* the footprint raster opened by calculate_raster_surface
    surface_dst,   \* the raster written to output_tif
    raster_pc,     \* position of calculate_raster_surface
    main_pc,       \* position of main
    runs,          \* history: number of runs of main started
    run_inputs,    \* what the current run of main finds for each year
    year_idx,      \* years of the list the loop of main has gone through
    completed,     \* years of the current run reported as done, in order
    failed_years   \* years of the current run skipped or reported as failed, in order

batchVars == <<countries, batch_size, pc, i, end_idx, j, batch_stats, all_stats, calls, footprints>>
yearVars == <<vol_file, fp_file, year, year_file, year_pc>>

dirVars == <<module, output_dir, raised, iso_input>>
rasterVars == <<vol_src, fp_src, surface_dst, raster_pc>>
mainVars == <<main_pc, runs, run_inputs, year_idx, completed, failed_years>>

vars == <<batchVars, yearVars, dirVars, rasterVars, mainVars>>

(***************************************************************************)
(* footprint_extraction.py: process_countries_in_batches                   *)
(***************************************************************************)
Min(a, b) == IF a < b THEN a ELSE b

\* A stat dictionary: {} or {'sum': v}.
EmptyDict == <<"dict">>
SumDict(v) == <<"dict", v>>
HasSum(stat) == Len(stat) = 2
SumOf(stat) == stat[2]

\* What the zonal statistics collaborator does for one geometry: it raises,
\* or returns a list of stat dictionaries (empty, or one dictionary).
Raises == <<"raise">>
Returns(list) == <<"list", list>>
ZonalSums == {Num(0), Q(5, 2)}
ZonalOutcomes ==
    {Raises, Returns(<<>>), Returns(<<EmptyDict>>)}
    \cup {Returns(<<SumDict(v)>>) : v \in {None, NaN, Inf} \cup ZonalSums}

zonal_stats(country) == country

\* countries.iloc[a:b] with 0-based, end-exclusive bounds.
Iloc(s, a, b) == SubSeq(s, a + 1, Min(b, Len(s)))

\* range(0, total_countries, batch_size): the next start index.
NextBatchStart_Skip(start, size) == start + size + 1
NextBatchStart(start, size) == start + size

\* end_idx = min(i + batch_size, total_countries)
BatchEnd(start, size, total) == Min(start + size, total)

\* Lines 36-59: the entry appended to batch_stats for one region.
BatchEntry(single_stats) ==
    IF single_stats = Raises THEN SumDict(None)
    ELSE IF Len(single_stats[2]) > 0 THEN single_stats[2][1]
    ELSE SumDict(None)

StartBatch ==
    /\ pc = "batch_loop"
    /\ i < Len(countries)
    /\ end_idx' = BatchEnd(i, batch_size, Len(countries))
    /\ batch_stats' = <<>>
    /\ j' = 0
    /\ pc' = "country_loop"
    /\ UNCHANGED <<countries, batch_size, i, all_stats, calls, footprints>>

\* One iteration of the inner loop, lines 32-63, with the try/except.
ProcessCountry_NoTry ==
    /\ pc = "country_loop"
    /\ j < Len(Iloc(countries, i, end_idx))
    /\ LET country == Iloc(countries, i, end_idx)[j + 1]
           single_stats == zonal_stats(country)
       IN  /\ calls' = [calls EXCEPT ![i + j + 1] = @ + 1]
           /\ IF single_stats = Raises
              THEN /\ pc' = "exception"
                   /\ UNCHANGED <<batch_stats, j>>
              ELSE /\ batch_stats' = Append(batch_stats, BatchEntry(single_stats))
                   /\ j' = j + 1
                   /\ pc' = pc
    /\ UNCHANGED <<countries, batch_size, i, end_idx, all_stats, footprints>>
ProcessCountry ==
    /\ pc = "country_loop"
    /\ j < Len(Iloc(countries, i, end_idx))
    /\ LET country == Iloc(countries, i, end_idx)[j + 1]
           single_stats == zonal_stats(country)
       IN  /\ calls' = [calls EXCEPT ![i + j + 1] = @ + 1]
           /\ batch_stats' = Append(batch_stats, BatchEntry(single_stats))
    /\ j' = j + 1
    /\ UNCHANGED <<countries, batch_size, pc, i, end_idx, all_stats, footprints>>

\* Lines 65-69: all_stats.extend(batch_stats), then the next batch.
FinishBatch ==
    /\ pc = "country_loop"
    /\ j >= Len(Iloc(countries, i, end_idx))
    /\ all_stats' = all_stats \o batch_stats
    /\ i' = NextBatchStart(i, batch_size)
    /\ pc' = "batch_loop"
    /\ UNCHANGED <<countries, batch_size, end_idx, j, batch_stats, calls, footprints>>

\* Line 71: return all_stats.
ReturnStats ==
    /\ pc = "batch_loop"
    /\ i >= Len(countries)
    /\ pc' = "returned"
    /\ UNCHANGED <<countries, batch_size, i, end_idx, j, batch_stats, all_stats, calls, footprints>>

(***************************************************************************)
(* footprint_extraction.py: process_single_year, result handling           *)
(***************************************************************************)
\* int(x) of a finite float: truncation toward zero.
IntOfFloat(x) ==
    IF x[2] >= 0 THEN Num(x[2] \div x[3]) ELSE Num(-((-x[2]) \div x[3]))

\* Lines 185-213: the footprint recorded for one stat.
FootprintOf_NoneIsZero(stat) ==
    IF stat = None THEN NaN
    ELSE IF ~HasSum(stat) THEN NaN
    ELSE IF SumOf(stat) = None THEN Num(0)
    ELSE IF SumOf(stat) = NaN THEN NaN
    ELSE IF SumOf(stat) = Inf THEN NaN
    ELSE IntOfFloat(SumOf(stat))
FootprintOf(stat) ==
    IF stat = None THEN NaN
    ELSE IF ~HasSum(stat) THEN NaN
    ELSE IF SumOf(stat) = None THEN NaN
    ELSE IF SumOf(stat) = NaN THEN NaN
    ELSE IF SumOf(stat) = Inf THEN NaN      \* int(inf) raises OverflowError
    ELSE IntOfFloat(SumOf(stat))

\* Lines 178-216: footprints built from stats and stored as column total_fp.
\* Assigning a list of another length than the table raises ValueError.
HandleResults ==
    /\ pc = "returned"
    /\ footprints' = [k \in 1..Len(all_stats) |-> FootprintOf(all_stats[k])]
    /\ pc' = IF Len(all_stats) = Len(countries) THEN "saved" ELSE "ValueError"
    /\ UNCHANGED <<countries, batch_size, i, end_idx, j, batch_stats, all_stats, calls>>

\* The per-year builder at rest (nothing read, nothing written).
IdleYear ==
    /\ vol_file = <<"nofile">>
    /\ fp_file = <<"nofile">>
    /\ year = 0
    /\ year_file = <<"nofile">>
    /\ year_pc = "idle"

\* The merge and ISO stages at rest, on an empty output directory.
IdleDir ==
    /\ module = "none"
    /\ output_dir = <<>>
    /\ raised = "none"
    /\ iso_input = <<"nofile">>

\* The raster metric calculator at rest (no raster opened, none written).
IdleRaster ==
    /\ vol_src = <<"nofile">>
    /\ fp_src = <<"nofile">>
    /\ surface_dst = <<"nofile">>
    /\ raster_pc = "idle"

\* main not started.
IdleMain ==
    /\ main_pc = "idle"
    /\ runs = 0
    /\ run_inputs = <<>>
    /\ year_idx = 0
    /\ completed = <<>>
    /\ failed_years = <<>>

RegionCollections == UNION {[1..n -> ZonalOutcomes] : n \in 0..MaxRegions}

\* The zonal aggregator at rest.
IdleBatch ==
    /\ countries = <<>>
    /\ batch_size = 1
    /\ pc = "idle"
    /\ i = 0
    /\ end_idx = 0
    /\ j = 0
    /\ batch_stats = <<>>
    /\ all_stats = <<>>
    /\ calls = <<>>
    /\ footprints = <<>>

InitBatch ==
    /\ countries \in RegionCollections
    /\ batch_size \in 1..MaxBatch
    /\ pc = "batch_loop"
    /\ i = 0
    /\ end_idx = 0
    /\ j = 0
    /\ batch_stats = <<>>
    /\ all_stats = <<>>
    /\ calls = [k \in 1..Len(countries) |-> 0]
    /\ footprints = <<>>
    /\ IdleYear
    /\ IdleDir
    /\ IdleRaster
    /\ IdleMain

NextBatch ==
    \/ StartBatch /\ UNCHANGED <<yearVars, dirVars, rasterVars, mainVars>>
    \/ ProcessCountry /\ UNCHANGED <<yearVars, dirVars, rasterVars, mainVars>>
    \/ FinishBatch /\ UNCHANGED <<yearVars, dirVars, rasterVars, mainVars>>
    \/ ReturnStats /\ UNCHANGED <<yearVars, dirVars, rasterVars, mainVars>>
    \/ HandleResults /\ UNCHANGED <<yearVars, dirVars, rasterVars, mainVars>>

SpecBatch == InitBatch /\ [][NextBatch]_vars

(***************************************************************************)
(* Claims about the batched zonal aggregator (SpecBatch)                   *)
(***************************************************************************)
\* The result a region is due: its stat dictionary when the zonal sum
\* returned one, and "missing" ({'sum': None}) when it returned nothing or raised.
ResultDue(country) ==
    IF country = Raises THEN SumDict(None)
    ELSE IF country[2] = <<>> THEN SumDict(None)
    ELSE country[2][1]

\* The results recorded so far, in the order they were recorded.
Recorded == IF pc = "country_loop" THEN all_stats \o batch_stats ELSE all_stats

IsPrefix(s, t) == Len(s) <= Len(t) /\ SubSeq(t, 1, Len(s)) = s

Finished == pc \in {"returned", "saved", "ValueError"}

\* C3: for every region collection of length n, every batch size >= 1 and every
\* combination of per-region outcomes, process_countries_in_batches returns
\* exactly n results, the k-th being the result of the k-th region; no region is
\* skipped, processed twice or reordered, also when n is no multiple of the
\* batch size.  While it runs, the results recorded are those of a prefix of
\* the collection.
C3_OneResultPerRegionInOrder ==
    /\ Len(Recorded) <= Len(countries)
    /\ \A k \in 1..Len(Recorded) : Recorded[k] = ResultDue(countries[k])
    /\ \A k \in 1..Len(countries) : calls[k] = (IF k <= Len(Recorded) THEN 1 ELSE 0)
    /\ Finished =>
          /\ Len(all_stats) = Len(countries)
          /\ \A k \in 1..Len(countries) :
                all_stats[k] = ResultDue(countries[k]) /\ calls[k] = 1

\* C3 witness: three regions in batches of two (3 is no multiple of 2), one
\* numeric sum, one exception and one region without coverage, all returned.
C3_Witness ==
    /\ pc = "returned"
    /\ batch_size = 2
    /\ countries = <<Returns(<<SumDict(Q(5, 2))>>), Raises, Returns(<<SumDict(None)>>)>>
    /\ all_stats = <<SumDict(Q(5, 2)), SumDict(None), SumDict(None)>>

\* C4: when the zonal sum of a region raises, the region is recorded as missing
\* (sum = None), the exception does not leave the function, the region is not
\* retried, the results recorded before stay as they are, and every later
\* region of the batch and of later batches is still processed.
C4_RegionFailureIsAbsorbed ==
    /\ [](/\ pc # "exception"
          /\ \A k \in 1..Len(countries) : calls[k] <= 1
          /\ \A k \in 1..Len(Recorded) :
                countries[k] = Raises => Recorded[k] = SumDict(None)
          /\ Finished =>
                /\ Len(all_stats) = Len(countries)
                /\ \A k \in 1..Len(countries) : calls[k] = 1)
    /\ [][IsPrefix(Recorded, Recorded')]_vars

\* C4 witness: the first of three regions raised; the second (same batch) and
\* the third (next batch) were processed after it and the function returned.
C4_Witness ==
    /\ pc = "returned"
    /\ batch_size = 2
    /\ Len(countries) = 3
    /\ countries[1] = Raises
    /\ countries[2] = Returns(<<SumDict(Num(0))>>)
    /\ countries[3] = Returns(<<SumDict(Q(5, 2))>>)
    /\ all_stats = <<SumDict(None), SumDict(Num(0)), SumDict(Q(5, 2))>>
    /\ calls = <<1, 1, 1>>

\* A region without a usable sum: the zonal sum is empty, None or NaN.
NoCoverage(country) ==
    country \in {Returns(<<>>), Returns(<<SumDict(None)>>), Returns(<<SumDict(NaN)>>)}
ZeroSum(country) == country = Returns(<<SumDict(Num(0))>>)

\* C5: in the footprint zonal path a region whose zonal sum is empty, None or
\* NaN gets total_fp = NaN and never 0, and a region whose zonal sum is exactly
\* 0 gets total_fp = 0 and never NaN; the two are never recorded alike.
C5_MissingIsNotZero ==
    pc = "saved" =>
        /\ Len(footprints) = Len(countries)
        /\ \A k \in 1..Len(countries) :
              /\ NoCoverage(countries[k]) => footprints[k] = NaN
              /\ ZeroSum(countries[k]) => footprints[k] = Num(0)
        /\ \A k, m \in 1..Len(countries) :
              NoCoverage(countries[k]) /\ ZeroSum(countries[m])
                  => footprints[k] # footprints[m]

\* C5 witness: a collection with an empty result, a None sum and a zero sum,
\* recorded as NaN, NaN and 0.
C5_Witness ==
    /\ pc = "saved"
    /\ countries = <<Returns(<<>>), Returns(<<SumDict(None)>>), Returns(<<SumDict(Num(0))>>)>>
    /\ footprints = <<NaN, NaN, Num(0)>>

(***************************************************************************)
(* Float arithmetic of the statistic tables, exact.  A derived value that  *)
(* is irrational is held as a + b * sqrt(r), r > 1 squarefree, b # 0:      *)
(* <<"surd", a, b, r>> with a and b rationals.                             *)
(***************************************************************************)
C == 4

QAdd(x, y) == Q(x[2] * y[3] + y[2] * x[3], x[3] * y[3])

\* x > 0 as pandas evaluates it: False when x is NaN.
Gt0(x) == IsNum(x) /\ x[2] > 0

\* x / y for y > 0; NaN when x is NaN.
FloatDiv(x, y) == IF IsNum(x) THEN Q(x[2] * y[3], x[3] * y[2]) ELSE NaN

\* The largest s with s * s dividing m (m >= 1).
SquarePart(m) ==
    CHOOSE s \in 1..m : m % (s * s) = 0 /\ \A t \in (s + 1)..m : m % (t * t) # 0

\* C * vol / (fp ** 0.5) + fp for fp = n/d > 0: with n * d = s * s * r,
\* sqrt(fp) = s * sqrt(r) / d, so the value is fp + (C * vol * d / (s * r)) * sqrt(r).
SurfaceFormula(vol, fp) ==
    IF ~IsNum(vol) THEN NaN
    ELSE LET m == fp[2] * fp[3]
             sq == SquarePart(m)
             r == m \div (sq * sq)
             b == Q(C * vol[2] * fp[3], vol[3] * sq * r)
         IN  IF r = 1 \/ b[2] = 0 THEN QAdd(fp, b) ELSE <<"surd", fp, b, r>>

\* lambda row: row['total_vol'] / row['total_fp'] if row['total_fp'] > 0 else 0
BuildingHeight(vol, fp) == IF Gt0(fp) THEN FloatDiv(vol, fp) ELSE Num(0)

\* lambda row: (C * row['total_vol'] / (row['total_fp'] ** 0.5) + row['total_fp'])
\*             if row['total_fp'] > 0 else 0
TotalSurfaceArea(vol, fp) == IF Gt0(fp) THEN SurfaceFormula(vol, fp) ELSE Num(0)

(***************************************************************************)
(* Tables.  A table is [cols, rows]: the set of its column names and the   *)
(* sequence of its rows.  A row holds every field; a field whose column    *)
(* the table lacks is NaN, which is what pandas' concat fills in.          *)
(***************************************************************************)
Str(x) == <<"str", x>>
NoFile == <<"nofile">>
File(table) == <<"file", table>>
TableOf(file) == file[2]

IsoCodes == <<"ABW", "BEL">>
IsoSet == {IsoCodes[k] : k \in 1..Len(IsoCodes)}
IsoRank(code) == CHOOSE k \in 1..Len(IsoCodes) : IsoCodes[k] = code
Years == <<1975, 1980>>
YearSet == {Years[k] : k \in 1..Len(Years)}

RECURSIVE Flatten(_)
Flatten(ss) == IF Len(ss) = 0 THEN <<>> ELSE Head(ss) \o Flatten(Tail(ss))

\* Rows a and b in the order of sort_values(['ISO_A3', 'year']).
KeyLeq(a, b) ==
    \/ IsoRank(a.ISO_A3) < IsoRank(b.ISO_A3)
    \/ a.ISO_A3 = b.ISO_A3 /\ a.year <= b.year

\* sort_values(['ISO_A3', 'year']): a stable sort.
RECURSIVE SortValues(_)
SortValues(rows) ==
    IF Len(rows) <= 1 THEN rows
    ELSE LET last == rows[Len(rows)]
             front == SortValues(SubSeq(rows, 1, Len(rows) - 1))
             keep == Cardinality({k \in 1..Len(front) : KeyLeq(front[k], last)})
         IN  SubSeq(front, 1, keep) \o <<last>> \o SubSeq(front, keep + 1, Len(front))

(***************************************************************************)
(* surface_calculation.py: calculate_building_surface_area, one year       *)
(***************************************************************************)
MaxJoinRows == 2

YearCols ==
    {"ISO_A3", "NAM_0", "year", "total_vol", "total_fp", "building_height",
     "total_surface_area"}

\* Lines 49-54: the rows of pd.merge(vol, fp, on='ISO_A3', how='inner'): every
\* pair of a volume row and a footprint row with the same ISO_A3.
InnerMerge(vol_df, fp_df) ==
    Flatten([k \in 1..Len(vol_df) |->
        LET hits == SelectSeq(fp_df, LAMBDA f : f.ISO_A3 = vol_df[k].ISO_A3)
        IN  [m \in 1..Len(hits) |->
                [ISO_A3 |-> vol_df[k].ISO_A3, NAM_0 |-> vol_df[k].NAM_0,
                 total_vol |-> vol_df[k].total_vol, total_fp |-> hits[m].total_fp]]])

\* Lines 60-86: derived columns, the year column, the column order, the sort.
YearTable(merged_df, yr) ==
    [cols |-> YearCols,
     rows |-> SortValues([k \in 1..Len(merged_df) |->
        [ISO_A3 |-> merged_df[k].ISO_A3,
         NAM_0 |-> merged_df[k].NAM_0,
         year |-> yr,
         total_vol |-> merged_df[k].total_vol,
         total_fp |-> merged_df[k].total_fp,
         total_surface |-> NaN,
         building_height |-> BuildingHeight(merged_df[k].total_vol, merged_df[k].total_fp),
         total_surface_area |->
             TotalSurfaceArea(merged_df[k].total_vol, merged_df[k].total_fp)]])]

\* Lines 26-111, one iteration of the loop over the volume files.  Without a
\* footprint file the year is skipped.  With no joined row, apply(axis=1)
\* gives an empty frame and the column assignment either raises (the except
\* branch skips the year) or yields an empty table, by pandas version.
BuildYearTable ==
    /\ year_pc = "start"
    /\ IF fp_file = NoFile
       THEN year_pc' = "skipped" /\ year_file' = year_file
       ELSE LET merged_df == InnerMerge(TableOf(vol_file), TableOf(fp_file))
            IN  \/ /\ year_file' = File(YearTable(merged_df, year))
                   /\ year_pc' = "saved"
                \/ /\ Len(merged_df) = 0
                   /\ year_file' = year_file
                   /\ year_pc' = "error"
    /\ UNCHANGED <<vol_file, fp_file, year>>

Names == {NaN, Str("n")}
Vols == {NaN, Num(0), Num(2)}
Fps == {NaN, Num(-1), Num(0), Num(4)}
VolRows == [ISO_A3 : IsoSet, NAM_0 : Names, total_vol : Vols]
FpRows == [ISO_A3 : IsoSet, total_fp : Fps]
VolTables == UNION {[1..n -> VolRows] : n \in 1..MaxJoinRows}
FpTables == UNION {[1..n -> FpRows] : n \in 1..MaxJoinRows}

InitYear ==
    /\ vol_file \in {File(t) : t \in VolTables}
    /\ fp_file \in {NoFile} \cup {File(t) : t \in FpTables}
    /\ year \in YearSet
    /\ year_file = NoFile
    /\ year_pc = "start"
    /\ IdleBatch
    /\ IdleDir
    /\ IdleRaster
    /\ IdleMain

NextYear ==
    \/ BuildYearTable /\ UNCHANGED <<batchVars, dirVars, rasterVars, mainVars>>

SpecYear == InitYear /\ [][NextYear]_vars

(***************************************************************************)
(* Claims about the per-year statistic builder (SpecYear)                  *)
(***************************************************************************)
\* C6: for every joined record whose total_vol or total_fp is missing,
\* building_height and total_surface_area are missing in the per-year table,
\* not 0; the footprint guard yields 0 only for a present total_fp <= 0.
C6_MissingBasesGiveMissingMetrics ==
    year_pc = "saved" =>
        \A k \in 1..Len(TableOf(year_file).rows) :
            LET row == TableOf(year_file).rows[k]
            IN  (row.total_vol = NaN \/ row.total_fp = NaN)
                    => row.building_height = NaN /\ row.total_surface_area = NaN

\* The number of rows of a table with a given ISO_A3.
CountIso(rows, code) == Cardinality({k \in 1..Len(rows) : rows[k].ISO_A3 = code})
IsoColumn(rows) == [k \in 1..Len(rows) |-> rows[k].ISO_A3]
Max(a, b) == IF a > b THEN a ELSE b

\* C9: the per-year table holds exactly one record for each region whose
\* identifier occurs in both tables (the tables listing the same regions, one
\* row each), no record for an identifier of only one table, and never more
\* records of an identifier than there are regions with it.
C9_OneRecordPerJoinedRegion ==
    year_pc = "saved" =>
        LET vol_df == TableOf(vol_file)
            fp_df == TableOf(fp_file)
            out == TableOf(year_file).rows
        IN  \A code \in IsoSet :
              /\ (CountIso(vol_df, code) = 0 \/ CountIso(fp_df, code) = 0)
                    => CountIso(out, code) = 0
              /\ IsoColumn(vol_df) = IsoColumn(fp_df)
                    => CountIso(out, code) = CountIso(vol_df, code)
              /\ CountIso(out, code)
                    <= Max(CountIso(vol_df, code), CountIso(fp_df, code))

(***************************************************************************)
(* create_iso_summary_file, in surface_calculation.py and in               *)
(* BuiltSurfaceCalc/surface_extraction.py                                  *)
(***************************************************************************)
MaxRows == 2

Ok(table) == <<"ok", table>>
Raise(exc) == <<"raise", exc>>

KeyOf(row) == <<row.ISO_A3, row.year>>
KeyPairLeq(a, b) == IsoRank(a[1]) < IsoRank(b[1]) \/ (a[1] = b[1] /\ a[2] <= b[2])

RECURSIVE SortKeys(_)
SortKeys(S) ==
    IF S = {} THEN <<>>
    ELSE LET m == CHOOSE x \in S : \A y \in S : KeyPairLeq(x, y)
         IN  <<m>> \o SortKeys(S \ {m})

\* df.groupby(['ISO_A3', 'year']): the group keys, sorted, and a group's rows.
GroupKeys(rows) == SortKeys({KeyOf(rows[k]) : k \in 1..Len(rows)})
GroupRows_IsoOnly(rows, key) == SelectSeq(rows, LAMBDA r : r.ISO_A3 = key[1])
GroupRows(rows, key) == SelectSeq(rows, LAMBDA r : KeyOf(r) = key)

\* The 'sum' aggregation: NaN entries are skipped, and the sum of no entry is 0.
RECURSIVE SumSkipNa(_)
SumSkipNa(vals) ==
    IF Len(vals) = 0 THEN Num(0)
    ELSE LET rest == SumSkipNa(Tail(vals))
         IN  IF IsNum(Head(vals)) THEN QAdd(Head(vals), rest) ELSE rest
GroupSum(group, col) == SumSkipNa([k \in 1..Len(group) |-> group[k][col]])

\* The derived metrics of one group, recomputed from its summed bases.
RecomputedHeight_MeanOfRows(group) ==
    LET hs == SelectSeq([k \in 1..Len(group) |-> group[k].building_height], IsNum)
    IN  IF Len(hs) = 0 THEN NaN ELSE FloatDiv(SumSkipNa(hs), Num(Len(hs)))
RecomputedHeight(group) ==
    BuildingHeight(GroupSum(group, "total_vol"), GroupSum(group, "total_fp"))
RecomputedSurfaceArea(group) ==
    TotalSurfaceArea(GroupSum(group, "total_vol"), GroupSum(group, "total_fp"))

\* df.groupby('ISO_A3')['NAM_0'].first(): the first non-null name of the
\* identifier in row order, NaN when it has none.
FirstName(rows, code) ==
    LET named == SelectSeq(rows, LAMBDA r : r.ISO_A3 = code /\ r.NAM_0 # NaN)
    IN  IF Len(named) = 0 THEN NaN ELSE named[1].NAM_0

IsoColsCalc ==
    {"ISO_A3", "year", "total_vol", "total_fp", "building_height", "total_surface_area"}

\* surface_calculation.py, lines 165-202.  Aggregating or selecting a column
\* the table lacks raises KeyError.
IsoSummaryCalc(df) ==
    IF ~({"ISO_A3", "year", "total_vol", "total_fp"} \subseteq df.cols)
        THEN Raise("KeyError")
    ELSE IF "NAM_0" \notin df.cols THEN Raise("KeyError")
    ELSE LET keys == GroupKeys(df.rows)
         IN  Ok([cols |-> IsoColsCalc,
                 rows |-> SortValues([k \in 1..Len(keys) |->
                    LET group == GroupRows(df.rows, keys[k])
                    IN  [ISO_A3 |-> keys[k][1],
                         NAM_0 |-> NaN,
                         year |-> keys[k][2],
                         total_vol |-> GroupSum(group, "total_vol"),
                         total_fp |-> GroupSum(group, "total_fp"),
                         total_surface |-> NaN,
                         building_height |-> RecomputedHeight(group),
                         total_surface_area |-> RecomputedSurfaceArea(group)]])])

\* surface_extraction.py, lines 83-112: only the columns present are used.
IsoSummaryExtract(df) ==
    IF ~({"ISO_A3", "year"} \subseteq df.cols) THEN Raise("KeyError")
    ELSE LET keys == GroupKeys(df.rows)
             agg == {"total_vol", "total_fp", "total_surface"} \cap df.cols
             derived == {"total_vol", "total_fp"} \subseteq agg
             named == "NAM_0" \in df.cols
         IN  Ok([cols |-> {"ISO_A3", "year"} \cup agg
                          \cup (IF derived THEN {"building_height", "total_surface_area"}
                                ELSE {})
                          \cup (IF named THEN {"NAM_0"} ELSE {}),
                 rows |-> SortValues([k \in 1..Len(keys) |->
                    LET group == GroupRows(df.rows, keys[k])
                        sum(col) == IF col \in agg THEN GroupSum(group, col) ELSE NaN
                    IN  [ISO_A3 |-> keys[k][1],
                         NAM_0 |-> IF named THEN FirstName(df.rows, keys[k][1]) ELSE NaN,
                         year |-> keys[k][2],
                         total_vol |-> sum("total_vol"),
                         total_fp |-> sum("total_fp"),
                         total_surface |-> sum("total_surface"),
                         building_height |->
                             IF derived THEN RecomputedHeight(group) ELSE NaN,
                         total_surface_area |->
                             IF derived THEN RecomputedSurfaceArea(group) ELSE NaN]])])

IsoSummary(mod, df) ==
    IF mod = "surface_calculation" THEN IsoSummaryCalc(df) ELSE IsoSummaryExtract(df)

\* The ISO stage on the output directory: without a merged table it returns;
\* an exception leaves the directory as it was.
create_iso_summary_file ==
    /\ IF output_dir.all_years = NoFile
       THEN /\ raised' = "none"
            /\ UNCHANGED <<output_dir, iso_input>>
       ELSE LET res == IsoSummary(module, TableOf(output_dir.all_years))
            IN  IF res[1] = "raise"
                THEN /\ raised' = res[2]
                     /\ UNCHANGED <<output_dir, iso_input>>
                ELSE /\ output_dir' = [output_dir EXCEPT !.iso_summary = File(res[2])]
                     /\ iso_input' = output_dir.all_years
                     /\ raised' = "none"
    /\ UNCHANGED module

\* The rows a merged table can hold: rows of per-year tables of the
\* volume/footprint path, and rows of per-year tables of the direct-raster path.
IsoVols == {NaN, Num(1), Num(2)}
IsoFps == {NaN, Num(0), Num(1), Num(4)}
IsoSurfaces == {NaN, Num(0), Num(3)}
ZonalCols == {"ISO_A3", "NAM_0", "year", "total_surface"}

YearRow(code, name, yr, vol, fp) ==
    [ISO_A3 |-> code, NAM_0 |-> name, year |-> yr, total_vol |-> vol, total_fp |-> fp,
     total_surface |-> NaN,
     building_height |-> BuildingHeight(vol, fp),
     total_surface_area |-> TotalSurfaceArea(vol, fp)]
ZonalRow(code, name, yr, surface) ==
    [ISO_A3 |-> code, NAM_0 |-> name, year |-> yr, total_vol |-> NaN, total_fp |-> NaN,
     total_surface |-> surface, building_height |-> NaN, total_surface_area |-> NaN]

IsoNames == {NaN, Str("n"), Str("m")}
YearRowSet ==
    {YearRow(c, Str("n"), y, v, f) : c \in IsoSet, y \in YearSet,
                                      v \in IsoVols, f \in IsoFps}
ZonalRowSet ==
    {ZonalRow(c, n, y, x) : c \in IsoSet, n \in IsoNames, y \in YearSet,
                            x \in IsoSurfaces}

IsSorted(rows) == \A k \in 1..(Len(rows) - 1) : KeyLeq(rows[k], rows[k + 1])
SortedTables(rowSet, cols) ==
    {[cols |-> cols, rows |-> rows] :
        rows \in {t \in UNION {[1..n -> rowSet] : n \in 1..MaxRows} : IsSorted(t)}}

MergedTables(mod) ==
    IF mod = "surface_calculation" THEN SortedTables(YearRowSet, YearCols)
    ELSE SortedTables(YearRowSet, YearCols) \cup SortedTables(ZonalRowSet, ZonalCols)

InitIso ==
    /\ module \in {"surface_calculation", "surface_extraction"}
    /\ \E t \in MergedTables(module) :
          output_dir = [years |-> [y \in YearSet |-> NoFile],
                        all_years |-> File(t),
                        iso_summary |-> NoFile]
    /\ raised = "none"
    /\ iso_input = NoFile
    /\ IdleBatch
    /\ IdleYear
    /\ IdleRaster
    /\ IdleMain

NextIso ==
    \/ create_iso_summary_file /\ UNCHANGED <<batchVars, yearVars, rasterVars, mainVars>>

SpecIso == InitIso /\ [][NextIso]_vars

(***************************************************************************)
(* create_summary_file, in surface_calculation.py and in                   *)
(* BuiltSurfaceCalc/surface_extraction.py                                  *)
(***************************************************************************)
MaxDirRows == 4

\* The files of the output directory that glob("surface_statistics_*.csv")
\* can match: the per-year tables, surface_statistics_all_years.csv and
\* surface_statistics_iso_summary.csv.
FileIds == {<<"year", y>> : y \in YearSet} \cup {<<"all_years", 0>>, <<"iso_summary", 0>>}
FileAt(dir, id) ==
    IF id[1] = "year" THEN dir.years[id[2]]
    ELSE IF id[1] = "all_years" THEN dir.all_years
    ELSE dir.iso_summary
GlobSurfaceStatistics(dir) == {id \in FileIds : FileAt(dir, id) # NoFile}

\* glob returns the matches in no particular order.
Orders(S) ==
    {p \in [1..Cardinality(S) -> S] : \A a, b \in 1..Cardinality(S) : p[a] = p[b] => a = b}

\* pd.concat(all_data, ignore_index=True): all rows, the union of the columns.
Concat(tables) ==
    [cols |-> UNION {tables[k].cols : k \in 1..Len(tables)},
     rows |-> Flatten([k \in 1..Len(tables) |-> tables[k].rows])]

\* surface_calculation.py, lines 128-144, and surface_extraction.py, lines
\* 55-65 (which sorts only when both key columns exist): the merged table,
\* for each order in which glob can list the files.
SummaryTables(dir) ==
    {LET all_data == [k \in 1..Len(order) |-> TableOf(FileAt(dir, order[k]))]
         combined_df == Concat(all_data)
     IN  IF {"ISO_A3", "year"} \subseteq combined_df.cols
         THEN [combined_df EXCEPT !.rows = SortValues(@)]
         ELSE combined_df
     : order \in Orders(GlobSurfaceStatistics(dir))}

\* surface_calculation.py, lines 121-150, and surface_extraction.py, lines
\* 48-70: without a matching file nothing is written.
create_summary_file ==
    /\ IF GlobSurfaceStatistics(output_dir) = {}
       THEN UNCHANGED output_dir
       ELSE \E sorted \in SummaryTables(output_dir) :
              /\ Len(sorted.rows) <= MaxDirRows
              /\ output_dir' = [output_dir EXCEPT !.all_years = File(sorted)]
    /\ raised' = "none"
    /\ UNCHANGED <<module, iso_input>>

\* The per-year tables an output directory starts with: those of the
\* volume/footprint path for surface_calculation, those of the direct-raster
\* path for surface_extraction.
DirFps == {Num(1), Num(4)}
DirSurfaces == {NaN, Num(3)}
DirYearRows(mod, y) ==
    IF mod = "surface_calculation"
    THEN {YearRow(c, Str("n"), y, Num(2), f) : c \in IsoSet, f \in DirFps}
    ELSE {ZonalRow(c, Str("n"), y, x) : c \in IsoSet, x \in DirSurfaces}
DirYearFiles(mod, y) ==
    {NoFile} \cup
    {File(t) : t \in SortedTables(DirYearRows(mod, y),
                        IF mod = "surface_calculation" THEN YearCols ELSE ZonalCols)}

InitDir ==
    /\ module \in {"surface_calculation", "surface_extraction"}
    /\ \E ys \in [YearSet -> UNION {DirYearFiles(module, y) : y \in YearSet}] :
          /\ \A y \in YearSet : ys[y] \in DirYearFiles(module, y)
          /\ output_dir = [years |-> ys, all_years |-> NoFile, iso_summary |-> NoFile]
    /\ raised = "none"
    /\ iso_input = NoFile
    /\ IdleBatch
    /\ IdleYear
    /\ IdleRaster
    /\ IdleMain

NextDir ==
    \/ create_summary_file /\ UNCHANGED <<batchVars, yearVars, rasterVars, mainVars>>
    \/ create_iso_summary_file /\ UNCHANGED <<batchVars, yearVars, rasterVars, mainVars>>

SpecDir == InitDir /\ [][NextDir]_vars

(***************************************************************************)
(* Claims about the ISO re-aggregation (SpecIso)                           *)
(***************************************************************************)
QSub(x, y) == Q(x[2] * y[3] - y[2] * x[3], x[3] * y[3])
QMul(x, y) == Q(x[2] * y[2], x[3] * y[3])

BaseCols == {"total_vol", "total_fp", "total_surface"}

\* The input rows of one (region identifier, year) pair, and the sum of the
\* present values of a column over a set of rows.
PairRows(rows, code, yr) ==
    {k \in 1..Len(rows) : rows[k].ISO_A3 = code /\ rows[k].year = yr}
RECURSIVE PresentTotal(_, _, _)
PresentTotal(rows, idx, col) ==
    IF idx = {} THEN Num(0)
    ELSE LET k == CHOOSE m \in idx : TRUE
             rest == PresentTotal(rows, idx \ {k}, col)
         IN  IF IsNum(rows[k][col]) THEN QAdd(rows[k][col], rest) ELSE rest

\* x is C * vol / sqrt(fp) + fp (vol >= 0, fp > 0), stated without a square
\* root: x - fp >= 0 and (x - fp)^2 * fp = (C * vol)^2.
IsSurfaceAreaOf(x, vol, fp) ==
    LET target == QMul(Num(C * C), QMul(vol, vol))
    IN  IF x[1] = "num"
        THEN /\ QSub(x, fp)[2] >= 0
             /\ QMul(QMul(QSub(x, fp), QSub(x, fp)), fp) = target
        ELSE /\ x[1] = "surd"
             /\ x[2] = fp
             /\ x[3][2] > 0
             /\ QMul(QMul(QMul(x[3], x[3]), Num(x[4])), fp) = target

IsoDone == output_dir.iso_summary # NoFile
IsoIn == TableOf(iso_input)
IsoOut == TableOf(output_dir.iso_summary)

\* C1: in every output row of the ISO re-aggregation, building_height is
\* total_vol / total_fp and total_surface_area is C * total_vol / sqrt(total_fp)
\* + total_fp of the group-summed total_vol and total_fp of the row's (region,
\* year) group, and both are 0 when the summed total_fp <= 0; they are not a
\* sum or an average of the per-row derived values.
C1_DerivedFromGroupSums ==
    (IsoDone /\ {"total_vol", "total_fp"} \subseteq IsoIn.cols) =>
        \A k \in 1..Len(IsoOut.rows) :
            LET row == IsoOut.rows[k]
                idx == PairRows(IsoIn.rows, row.ISO_A3, row.year)
                vol == PresentTotal(IsoIn.rows, idx, "total_vol")
                fp == PresentTotal(IsoIn.rows, idx, "total_fp")
            IN  IF fp[2] > 0
                THEN /\ row.building_height = Q(vol[2] * fp[3], vol[3] * fp[2])
                     /\ IsSurfaceAreaOf(row.total_surface_area, vol, fp)
                ELSE /\ row.building_height = Num(0)
                     /\ row.total_surface_area = Num(0)

\* C1 witness: rows (vol=2, fp=1) and (vol=1, fp=4) of one region and year
\* (heights 2 and 1/4, average 9/8) give height 3/5 and surface area
\* 5 + (12/5) * sqrt(5).
C1_Witness ==
    /\ IsoDone
    /\ Len(IsoIn.rows) = 2
    /\ KeyOf(IsoIn.rows[1]) = KeyOf(IsoIn.rows[2])
    /\ IsoIn.rows[1].total_vol = Num(2) /\ IsoIn.rows[1].total_fp = Num(1)
    /\ IsoIn.rows[2].total_vol = Num(1) /\ IsoIn.rows[2].total_fp = Num(4)
    /\ IsoIn.rows[1].building_height = Num(2)
    /\ IsoIn.rows[2].building_height = Q(1, 4)
    /\ Len(IsoOut.rows) = 1
    /\ IsoOut.rows[1].building_height = Q(3, 5)
    /\ IsoOut.rows[1].building_height # Q(9, 8)
    /\ IsoOut.rows[1].total_surface_area = <<"surd", Num(5), Q(12, 5), 5>>

\* C2: the ISO re-aggregation output has exactly one row for every distinct
\* (region identifier, year) pair of its input and no other row, and each base
\* statistic of a row is the sum of that column over the input rows of the
\* pair (the values present; C7 is about the missing ones).
C2_OneRowPerPairWithSums ==
    IsoDone =>
        /\ {KeyOf(IsoOut.rows[k]) : k \in 1..Len(IsoOut.rows)}
              = {KeyOf(IsoIn.rows[k]) : k \in 1..Len(IsoIn.rows)}
        /\ \A k, m \in 1..Len(IsoOut.rows) :
              KeyOf(IsoOut.rows[k]) = KeyOf(IsoOut.rows[m]) => k = m
        /\ BaseCols \cap IsoOut.cols = BaseCols \cap IsoIn.cols
        /\ \A k \in 1..Len(IsoOut.rows) : \A col \in BaseCols \cap IsoOut.cols :
              LET row == IsoOut.rows[k]
              IN  row[col] = PresentTotal(IsoIn.rows,
                                 PairRows(IsoIn.rows, row.ISO_A3, row.year), col)

\* C2 witness: two input rows of one pair with volumes 1 and 2 and footprints
\* 1 and 4 become one row with volume 3 and footprint 5.
C2_Witness ==
    /\ IsoDone
    /\ Len(IsoIn.rows) = 2
    /\ KeyOf(IsoIn.rows[1]) = KeyOf(IsoIn.rows[2])
    /\ IsoIn.rows[1].total_vol = Num(1) /\ IsoIn.rows[2].total_vol = Num(2)
    /\ IsoIn.rows[1].total_fp = Num(1) /\ IsoIn.rows[2].total_fp = Num(4)
    /\ Len(IsoOut.rows) = 1
    /\ IsoOut.rows[1].total_vol = Num(3)
    /\ IsoOut.rows[1].total_fp = Num(5)

\* C7: a (region identifier, year) group whose input rows all have a missing
\* total_vol (total_fp, total_surface) has that statistic missing in the output
\* row, not 0; a group-summed statistic is 0 only when present values sum to 0.
C7_AllMissingGroupStaysMissing ==
    IsoDone =>
        \A k \in 1..Len(IsoOut.rows) : \A col \in BaseCols \cap IsoOut.cols :
            LET row == IsoOut.rows[k]
                idx == PairRows(IsoIn.rows, row.ISO_A3, row.year)
            IN  /\ (\A m \in idx : IsoIn.rows[m][col] = NaN) => row[col] = NaN
                /\ row[col] = Num(0) => \E m \in idx : IsoIn.rows[m][col] # NaN

\* C10: re-aggregating the ISO re-aggregation's output gives the same table:
\* the same rows in the same order with the same base statistics, derived
\* metrics and names.
C10_ReaggregationIsIdempotent ==
    IsoDone =>
        LET again == IsoSummary(module, IsoOut)
        IN  again[1] = "ok" /\ again[2] = IsoOut

\* The same for the surface_extraction module alone, where it holds.
ReaggregationIsIdempotentInExtraction ==
    (IsoDone /\ module = "surface_extraction") =>
        LET again == IsoSummary(module, IsoOut)
        IN  again[1] = "ok" /\ again[2] = IsoOut

\* The input rows of a region identifier that have a name, by position.
NamedRows(rows, code) ==
    {k \in 1..Len(rows) : rows[k].ISO_A3 = code /\ rows[k].NAM_0 # NaN}
FirstOf(idx) == CHOOSE k \in idx : \A m \in idx : k <= m

\* C13: every row of the ISO re-aggregation output carries a display name
\* (NAM_0) for its region identifier: the first non-null name among the input
\* rows with that identifier, in the row order of the input table; all output
\* rows of one region identifier carry the same name.
C13_NameIsFirstNonNull ==
    (IsoDone /\ "NAM_0" \in IsoIn.cols) =>
        /\ "NAM_0" \in IsoOut.cols
        /\ \A k \in 1..Len(IsoOut.rows) :
              LET row == IsoOut.rows[k]
                  idx == NamedRows(IsoIn.rows, row.ISO_A3)
              IN  idx # {} => row.NAM_0 = IsoIn.rows[FirstOf(idx)].NAM_0
        /\ \A k, m \in 1..Len(IsoOut.rows) :
              IsoOut.rows[k].ISO_A3 = IsoOut.rows[m].ISO_A3
                  => IsoOut.rows[k].NAM_0 = IsoOut.rows[m].NAM_0

\* The same for the surface_extraction module alone, where it holds.
NameIsFirstNonNullInExtraction ==
    module = "surface_extraction" => C13_NameIsFirstNonNull

\* A run of surface_extraction in which the first row of an identifier has no
\* name and the second, of another year, has one: both output rows carry it.
NameIsFirstNonNullInExtraction_Reached ==
    /\ IsoDone
    /\ module = "surface_extraction"
    /\ Len(IsoIn.rows) = 2
    /\ IsoIn.rows[1].ISO_A3 = IsoIn.rows[2].ISO_A3
    /\ IsoIn.rows[1].year # IsoIn.rows[2].year
    /\ IsoIn.rows[1].NAM_0 = NaN
    /\ IsoIn.rows[2].NAM_0 = Str("m")
    /\ Len(IsoOut.rows) = 2
    /\ IsoOut.rows[1].NAM_0 = Str("m")
    /\ IsoOut.rows[2].NAM_0 = Str("m")

(***************************************************************************)
(* Claims about the merge stage (SpecDir)                                  *)
(***************************************************************************)
CountRow(rows, r) == Cardinality({k \in 1..Len(rows) : rows[k] = r})
YearTableRows(y) ==
    IF output_dir.years[y] = NoFile THEN <<>> ELSE TableOf(output_dir.years[y]).rows
RECURSIVE CountInYears(_, _)
CountInYears(ys, r) ==
    IF ys = {} THEN 0
    ELSE LET y == CHOOSE z \in ys : TRUE
         IN  CountRow(YearTableRows(y), r) + CountInYears(ys \ {y}, r)

\* C8: after any sequence of runs of the merge stage and the ISO stage over an
\* output directory, the merged table holds exactly the rows of the per-year
\* tables of the directory, each as often as it occurs there, none from any
\* other file (a merged table or ISO summary written before), ordered by
\* (region identifier, year).
C8_MergedIsExactlyThePerYearRows ==
    output_dir.all_years # NoFile =>
        LET merged == TableOf(output_dir.all_years).rows
        IN  /\ \A k \in 1..Len(merged) :
                  CountRow(merged, merged[k]) = CountInYears(YearSet, merged[k])
            /\ \A y \in YearSet : \A k \in 1..Len(YearTableRows(y)) :
                  CountRow(merged, YearTableRows(y)[k])
                      = CountInYears(YearSet, YearTableRows(y)[k])
            /\ IsSorted(merged)

(***************************************************************************)
(* BuiltSurfaceCalc/surface_extraction.py: calculate_raster_surface        *)
(***************************************************************************)
\* A raster file holds [dtype, nodata, shape, data]: the dtype of its band,
\* the nodata it declares (None when it declares none), the shape <<height,
\* width>> and the pixels in row-major order.  read(1) gives an array of the
\* band's dtype.
RasterOf(file) == file[2]

\* src.nodata if src.nodata is not None else -9999
NodataOrDefault(nodata) == IF nodata # None THEN nodata ELSE Num(-9999)

\* x != y on array elements: True whenever one side is NaN.
NotEqual(x, y) == x = NaN \/ y = NaN \/ x # y

\* Line 17: the mask of one pixel.
Mask(vol, fp, vol_nodata, fp_nodata) ==
    Gt0(fp) /\ Gt0(vol) /\ NotEqual(fp, fp_nodata) /\ NotEqual(vol, vol_nodata)

\* c * x in the array's dtype: an unsigned 8-bit product wraps, silently.
Times(dtype, c, x) ==
    IF dtype = "uint8" THEN Num((c * x[2]) % 256) ELSE Q(c * x[2], x[3])

\* x / np.sqrt(fp) + fp for fp = n/d > 0 (a float result): with
\* n * d = s * s * r, sqrt(fp) = s * sqrt(r) / d.
OverSqrtPlus(x, fp) ==
    LET m == fp[2] * fp[3]
        sq == SquarePart(m)
        r == m \div (sq * sq)
        b == Q(x[2] * fp[3], x[3] * sq * r)
    IN  IF r = 1 \/ b[2] = 0 THEN QAdd(fp, b) ELSE <<"surd", fp, b, r>>

\* Lines 18-19: the value of one pixel of surface.
SurfacePixel(vol, fp, vol_dtype, vol_nodata, fp_nodata, fill) ==
    IF Mask(vol, fp, vol_nodata, fp_nodata)
    THEN OverSqrtPlus(Times(vol_dtype, C, vol), fp)
    ELSE fill

\* Lines 11-22.  Arrays of different shapes fail in the mask or in the boolean
\* indexing (ValueError or IndexError) before anything is written.
calculate_raster_surface ==
    /\ raster_pc = "start"
    /\ LET vol == RasterOf(vol_src)
           fp == RasterOf(fp_src)
           vol_nodata == NodataOrDefault(vol.nodata)
           fp_nodata == NodataOrDefault(fp.nodata)
           fill == NodataOrDefault(vol.nodata)
       IN  IF fp.shape # vol.shape
           THEN /\ raster_pc' = "error"
                /\ surface_dst' = surface_dst
           ELSE /\ surface_dst' = File(
                      [dtype |-> "float32",
                       nodata |-> NodataOrDefault(vol.nodata),
                       shape |-> vol.shape,
                       data |-> [k \in 1..Len(vol.data) |->
                                    SurfacePixel(vol.data[k], fp.data[k], vol.dtype,
                                                 vol_nodata, fp_nodata, fill)]])
                /\ raster_pc' = "written"
    /\ UNCHANGED <<vol_src, fp_src>>

\* The rasters the calculator is run on.
Shapes == {<<1, 1>>, <<1, 2>>, <<2, 1>>}
DTypes == {"uint8", "float64"}
PixelValues(dtype) ==
    IF dtype = "uint8" THEN {Num(0), Num(1), Num(64), Num(255)}
    ELSE {NaN, Num(-1), Num(0), Num(2), Num(4)}
Nodatas(dtype) ==
    IF dtype = "uint8" THEN {None, Num(255)} ELSE {None, NaN, Num(4)}
Rasters ==
    UNION {UNION {UNION {
        {File([dtype |-> t, nodata |-> nd, shape |-> sh, data |-> d]) :
            d \in [1..(sh[1] * sh[2]) -> PixelValues(t)]}
        : nd \in Nodatas(t)} : sh \in Shapes} : t \in DTypes}

InitRaster ==
    /\ vol_src \in Rasters
    /\ fp_src \in Rasters
    /\ surface_dst = NoFile
    /\ raster_pc = "start"
    /\ IdleBatch
    /\ IdleYear
    /\ IdleDir
    /\ IdleMain

NextRaster ==
    \/ calculate_raster_surface /\ UNCHANGED <<batchVars, yearVars, dirVars, mainVars>>

SpecRaster == InitRaster /\ [][NextRaster]_vars

(***************************************************************************)
(* Claims about the raster metric calculator (SpecRaster)                  *)
(***************************************************************************)
\* The validity of pixel k as the contract states it.
ValidPixel(k) ==
    LET vol == RasterOf(vol_src).data[k]
        fp == RasterOf(fp_src).data[k]
    IN  /\ IsNum(fp) /\ fp[2] > 0
        /\ IsNum(vol) /\ vol[2] > 0
        /\ fp # NodataOrDefault(RasterOf(fp_src).nodata)
        /\ vol # NodataOrDefault(RasterOf(vol_src).nodata)

\* C11: for every pixel of two same-shaped grids, the pixel is valid exactly
\* when footprint > 0, volume > 0, footprint # footprint nodata and volume #
\* volume nodata (a nodata not declared being -9999); the output of a valid
\* pixel is C * volume / sqrt(footprint) + footprint, the output of an invalid
\* pixel is the nodata of the output profile (-9999 when none is declared),
\* and the output grid has the shape of the inputs.
C11_MaskedSurfaceFormula ==
    raster_pc = "written" =>
        LET out == RasterOf(surface_dst)
        IN  /\ out.shape = RasterOf(vol_src).shape
            /\ out.shape = RasterOf(fp_src).shape
            /\ Len(out.data) = out.shape[1] * out.shape[2]
            /\ \A k \in 1..Len(out.data) :
                  IF ValidPixel(k)
                  THEN IsSurfaceAreaOf(out.data[k], RasterOf(vol_src).data[k],
                                       RasterOf(fp_src).data[k])
                  ELSE out.data[k] = NodataOrDefault(out.nodata)

\* The same for volume grids of a float dtype, where it holds.
MaskedSurfaceFormulaOnFloatVolume ==
    RasterOf(vol_src).dtype = "float64" => C11_MaskedSurfaceFormula

(***************************************************************************)
(* main of BuiltSurfaceCalc/surface_extraction.py (with zonal_surface_stats)*)
(* and main of footprint_extraction.py                                     *)
(***************************************************************************)
MaxRuns == 2

\* The region collection read from the shapefile.
Regions ==
    <<[ISO_A3 |-> "ABW", NAM_0 |-> Str("n")], [ISO_A3 |-> "BEL", NAM_0 |-> Str("m")]>>

\* What a run finds for one year: the source rasters are absent; they exist
\* but reading or computing on them raises; or they are processed, and the
\* zonal sum of each region raises or returns a stat dictionary.
Absent == <<"absent">>
Broken == <<"broken">>
Present(outcomes) == <<"present", outcomes>>
MainOutcomes == {Raises, Returns(<<SumDict(None)>>), Returns(<<SumDict(Num(3))>>)}
YearInputs ==
    {Absent, Broken} \cup {Present(o) : o \in [1..Len(Regions) -> MainOutcomes]}

\* to_csv then read_csv: None and NaN are both written as an empty cell.
CsvCell(v) == IF v = None THEN NaN ELSE v

\* zonal_stats(vectors=countries, ...): one call for the whole collection; an
\* exception for one geometry leaves the call.
ZonalStatsAll(outcomes) ==
    IF \E k \in 1..Len(outcomes) : outcomes[k] = Raises THEN Raises
    ELSE Returns([k \in 1..Len(outcomes) |-> outcomes[k][2][1]])

\* Line 41: s['sum'] if s and 'sum' in s else np.nan
TotalSurface(s) == IF s # EmptyDict /\ HasSum(s) THEN SumOf(s) ELSE NaN

\* zonal_surface_stats, lines 26-46: the table written to output_csv, or the
\* exception.
ZonalSurfaceStats(outcomes, yr) ==
    LET stats == ZonalStatsAll(outcomes)
    IN  IF stats = Raises THEN Raise("Exception")
        ELSE Ok([cols |-> ZonalCols,
                 rows |-> [k \in 1..Len(Regions) |->
                    ZonalRow(Regions[k].ISO_A3, Regions[k].NAM_0, yr,
                             CsvCell(TotalSurface(stats[2][k])))]])

\* process_single_year of footprint_extraction.py, lines 166-232: the table
\* written to footprint_statistics_<year>.csv (it has no year column).
FootprintCols == {"ISO_A3", "NAM_0", "total_fp"}
FootprintTable(outcomes) ==
    [cols |-> FootprintCols,
     rows |-> [k \in 1..Len(Regions) |->
        [ISO_A3 |-> Regions[k].ISO_A3, NAM_0 |-> Regions[k].NAM_0, year |-> NaN,
         total_vol |-> NaN, total_fp |-> FootprintOf(BatchEntry(outcomes[k])),
         total_surface |-> NaN, building_height |-> NaN, total_surface_area |-> NaN]]]

\* main up to the loop: os.makedirs(output_dir, exist_ok=True) keeps what the
\* directory holds; the years list.
MainStart ==
    /\ main_pc \in {"idle", "done"}
    /\ runs < MaxRuns
    /\ runs' = runs + 1
    /\ run_inputs' \in [YearSet -> YearInputs]
    /\ year_idx' = 0
    /\ completed' = <<>>
    /\ failed_years' = <<>>
    /\ main_pc' = "loop"
    /\ UNCHANGED dirVars

\* surface_extraction.py, lines 146-162: one iteration of the loop of main.
MainYear ==
    /\ main_pc = "loop"
    /\ module = "surface_extraction"
    /\ year_idx < Len(Years)
    /\ LET yr == Years[year_idx + 1]
           input == run_inputs[yr]
           res == IF input \in {Absent, Broken} THEN Raise("Exception")
                  ELSE ZonalSurfaceStats(input[2], yr)
       IN  IF res[1] = "raise"
           THEN /\ failed_years' = Append(failed_years, yr)
                /\ UNCHANGED <<completed, output_dir>>
           ELSE /\ output_dir' = [output_dir EXCEPT !.years[yr] = File(res[2])]
                /\ completed' = Append(completed, yr)
                /\ UNCHANGED failed_years
    /\ year_idx' = year_idx + 1
    /\ main_pc' = IF year_idx + 1 = Len(Years) THEN "summary" ELSE "loop"
    /\ UNCHANGED <<module, raised, iso_input, runs, run_inputs>>

\* surface_extraction.py, line 166: create_summary_file(output_dir).
MainCreateSummary ==
    /\ main_pc = "summary"
    /\ IF GlobSurfaceStatistics(output_dir) = {}
       THEN UNCHANGED output_dir
       ELSE \E sorted \in SummaryTables(output_dir) :
              output_dir' = [output_dir EXCEPT !.all_years = File(sorted)]
    /\ raised' = "none"
    /\ main_pc' = "iso_summary"
    /\ UNCHANGED <<module, iso_input, runs, run_inputs, year_idx, completed, failed_years>>

\* surface_extraction.py, line 167: create_iso_summary_file(output_dir).
MainCreateIsoSummary ==
    /\ main_pc = "iso_summary"
    /\ create_iso_summary_file
    /\ main_pc' = IF raised' = "none" THEN "done" ELSE "crashed"
    /\ UNCHANGED <<runs, run_inputs, year_idx, completed, failed_years>>

\* footprint_extraction.py, lines 280-293: one iteration of the loop of main.
\* process_single_year returns False or raises for a year it cannot process,
\* and absorbs the failure of a region.
FootprintMainYear ==
    /\ main_pc = "loop"
    /\ module = "footprint_extraction"
    /\ year_idx < Len(Years)
    /\ LET yr == Years[year_idx + 1]
           input == run_inputs[yr]
       IN  IF input \in {Absent, Broken}
           THEN /\ failed_years' = Append(failed_years, yr)
                /\ UNCHANGED <<completed, output_dir>>
           ELSE /\ output_dir' = [output_dir EXCEPT
                                      !.years[yr] = File(FootprintTable(input[2]))]
                /\ completed' = Append(completed, yr)
                /\ UNCHANGED failed_years
    /\ year_idx' = year_idx + 1
    /\ main_pc' = IF year_idx + 1 = Len(Years) THEN "done" ELSE "loop"
    /\ UNCHANGED <<module, raised, iso_input, runs, run_inputs>>

InitMain ==
    /\ module \in {"surface_extraction", "footprint_extraction"}
    /\ output_dir = [years |-> [y \in YearSet |-> NoFile],
                     all_years |-> NoFile,
                     iso_summary |-> NoFile]
    /\ raised = "none"
    /\ iso_input = NoFile
    /\ main_pc = "idle"
    /\ runs = 0
    /\ run_inputs = [y \in YearSet |-> Absent]
    /\ year_idx = 0
    /\ completed = <<>>
    /\ failed_years = <<>>
    /\ IdleBatch
    /\ IdleYear
    /\ IdleRaster

NextMain ==
    \/ MainStart /\ UNCHANGED <<batchVars, yearVars, rasterVars>>
    \/ MainYear /\ UNCHANGED <<batchVars, yearVars, rasterVars>>
    \/ MainCreateSummary /\ UNCHANGED <<batchVars, yearVars, rasterVars>>
    \/ MainCreateIsoSummary /\ UNCHANGED <<batchVars, yearVars, rasterVars>>
    \/ FootprintMainYear /\ UNCHANGED <<batchVars, yearVars, rasterVars>>

SpecMain == InitMain /\ [][NextMain]_vars

\* The loop of main is sequential code: an iteration that can be taken is
\* taken.
MainLoopStep ==
    /\ MainYear \/ FootprintMainYear
    /\ UNCHANGED <<batchVars, yearVars, rasterVars>>

SpecMainFair == SpecMain /\ WF_vars(MainLoopStep)

(***************************************************************************)
(* Claims about the multi-year runs (SpecMain, SpecMainFair)               *)
(***************************************************************************)
SeqSet(seq) == {seq[k] : k \in 1..Len(seq)}
Occurrences(seq, x) == Cardinality({k \in 1..Len(seq) : seq[k] = x})

\* The years the loop of the current run has gone through.
Handled == {Years[k] : k \in 1..year_idx}

\* The years of the current run whose source files are absent or whose
\* processing failed.
AbsentOrFailed ==
    {yr \in Handled : run_inputs[yr] \in {Absent, Broken}} \cup SeqSet(failed_years)

\* Each year gone through is classified once, as completed or as failed, no
\* other year is classified, and the years are taken in the order of the list.
YearsClassifiedOnceInOrder ==
    main_pc # "idle" =>
        /\ year_idx <= Len(Years)
        /\ \A yr \in YearSet :
              Occurrences(completed, yr) + Occurrences(failed_years, yr)
                  = (IF yr \in Handled THEN 1 ELSE 0)
        /\ \A yr \in Handled :
              run_inputs[yr] \in {Absent, Broken} => yr \in SeqSet(failed_years)
        /\ main_pc \in {"summary", "iso_summary", "done"} => year_idx = Len(Years)

\* The merged table and the ISO summary a finished run leaves hold no row of a
\* year that was absent or failed in that run.
NoRowOfAbsentOrFailedYear ==
    (main_pc = "done" /\ module = "surface_extraction") =>
        \A file \in {output_dir.all_years, output_dir.iso_summary} :
            file # NoFile =>
                \A k \in 1..Len(TableOf(file).rows) :
                    TableOf(file).rows[k].year \notin AbsentOrFailed

\* A run that has entered its loop goes through every year of the list and
\* leaves the loop, whatever years are absent or fail.
LoopTerminates ==
    (main_pc = "loop") ~> (main_pc # "loop" /\ year_idx = Len(Years))

\* C12: missing-year tolerance.  For every run over the year list and every
\* subset of years whose source files are absent or whose processing fails,
\* the run goes through every later year in order and its loop ends, it classifies
\* each year exactly once as completed or failed, and the merged table and the
\* ISO summary written at its end hold no row of an absent or failed year.
C12_MissingYearTolerance ==
    /\ [](YearsClassifiedOnceInOrder /\ NoRowOfAbsentOrFailedYear)
    /\ [][year_idx' \in {year_idx, year_idx + 1, 0}]_vars
    /\ LoopTerminates

\* The same for the first run on an empty output directory, where it holds.
MissingYearToleranceOnEmptyDirectory ==
    /\ [](YearsClassifiedOnceInOrder /\ (runs = 1 => NoRowOfAbsentOrFailedYear))
    /\ [][year_idx' \in {year_idx, year_idx + 1, 0}]_vars
    /\ LoopTerminates

\* A first run with 1975 absent and 1980 processed: its tables hold rows of
\* 1980 only.
MissingYearToleranceOnEmptyDirectory_Reached ==
    /\ main_pc = "done"
    /\ module = "surface_extraction"
    /\ runs = 1
    /\ run_inputs[1975] = Absent
    /\ failed_years = <<1975>>
    /\ completed = <<1980>>
    /\ Len(TableOf(output_dir.all_years).rows) = Len(Regions)
    /\ \A k \in 1..Len(Regions) : TableOf(output_dir.all_years).rows[k].year = 1980
    /\ output_dir.iso_summary # NoFile

\* C14: in the direct-raster path (zonal_surface_stats called from main for a
\* year whose rasters were read), the failure of the zonal sum of one region
\* is absorbed at that region: the year's table is written with one row per
\* region of the collection, the failed region's total_surface is missing,
\* the sums of the other regions are recorded, and the year is not failed.
C14_RegionFailureAbsorbedInDirectPath ==
    (module = "surface_extraction" /\ main_pc # "idle") =>
        \A yr \in Handled :
            run_inputs[yr][1] = "present" =>
                LET outcomes == run_inputs[yr][2]
                    file == output_dir.years[yr]
                IN  /\ yr \in SeqSet(completed)
                    /\ yr \notin SeqSet(failed_years)
                    /\ file # NoFile
                    /\ Len(TableOf(file).rows) = Len(Regions)
                    /\ \A k \in 1..Len(Regions) :
                          LET row == TableOf(file).rows[k]
                          IN  /\ row.ISO_A3 = Regions[k].ISO_A3
                              /\ row.year = yr
                              /\ row.total_surface =
                                    (IF outcomes[k] = Raises THEN NaN
                                     ELSE IF IsNum(outcomes[k][2][1][2])
                                          THEN outcomes[k][2][1][2]
                                     ELSE NaN)

\* The same for the years in which no zonal sum raises, where it holds.
YearTableWrittenWhenNoRegionFails ==
    (\A yr \in YearSet : \A k \in 1..Len(Regions) :
        run_inputs[yr][1] = "present" => run_inputs[yr][2][k] # Raises)
        => C14_RegionFailureAbsorbedInDirectPath

====
